---------------------------- MODULE Spec2Model ----------------------------
(***************************************************************************)
(* LivePlayerStats data fetcher (src/data_fetcher.py): the live game       *)
(* fetcher, the event parser and the stat-leader extractors.               *)
(*                                                                         *)
(* JSON objects (Python dicts) are TLA+ records: a key is present exactly  *)
(* when it is in the record's DOMAIN, and the empty dict is the empty      *)
(* function <<>>.  JSON arrays are sequences.  Player names are sequences  *)
(* of one-character strings.  Stat values and scores are strings, as the   *)
(* upstream API sends them.                                                *)
(***************************************************************************)
EXTENDS Integers, Sequences, FiniteSets, TLC

VARIABLES call, api, ret, pc

vars == <<call, api, ret, pc>>

(***************************************************************************)
(* Python values                                                           *)
(***************************************************************************)

\* Python None (JSON null) where a dict is expected or returned.
None == [none |-> TRUE]

EmptyDict == <<>>

\* JSON null where a string is expected (a stat value).
JNull == "<null>"

\* dict.get(key, default)
Get(d, k, default) == IF k \in DOMAIN d THEN d[k] ELSE default

\* str(v) as an f-string renders it
Format(v) == IF v = JNull THEN "None" ELSE v

\* bool(v) of a stat value: None and "" are falsy
Truthy(v) == v # JNull /\ v # ""

Numerals ==
    ("0" :> 0) @@ ("1" :> 1) @@ ("2" :> 2) @@ ("3" :> 3) @@ ("7" :> 7)

\* int(v): the value, or the exception int() raises
int(v) ==
    IF v \in DOMAIN Numerals THEN [exc |-> "", value |-> Numerals[v]]
    ELSE IF v = JNull THEN [exc |-> "TypeError", value |-> 0]
    ELSE [exc |-> "ValueError", value |-> 0]

Unknown == <<"U", "n", "k", "n", "o", "w", "n">>

\* None in a name slot of a running maximum; like "", it is falsy.
NoName == <<>>

(***************************************************************************)
(* Program constants                                                       *)
(***************************************************************************)

LEAGUE_MAP ==
    [nba   |-> <<"basketball", "nba">>,
     nfl   |-> <<"football", "nfl">>,
     ncaam |-> <<"basketball", "mens-college-basketball">>,
     ncaaf |-> <<"football", "college-football">>]

BASKETBALL_STAT_INDICES == [PTS |-> 15, REB |-> 10, AST |-> 11]

\* len(stats) >= 13 in the boxscore path
BOX_MIN_STATS == 13
\* stats[6] and stats[7] in the boxscore path
BOX_REB_INDEX == 6
BOX_AST_INDEX == 7

(***************************************************************************)
(* Basketball leaders from a boxscore                                      *)
(***************************************************************************)

\* athlete.get('athlete', {}).get('shortName', ...get('displayName', 'Unknown'))
\* raises AttributeError when the athlete's info is null
AthleteNameRaises(athlete) == Get(athlete, "athlete", EmptyDict) = None

AthleteName(athlete) ==
    LET info == Get(athlete, "athlete", EmptyDict)
    IN  Get(info, "shortName", Get(info, "displayName", Unknown))

BoxGreaterOrEqual(value, running) == value >= running

\* the comparison of lines 271-276
BoxBeats(value, running) == value > running

BoxLengthGateOffByOne(stats) == Len(stats) >= BOX_MIN_STATS - 1

\* the length gate of line 265
BoxLengthGate(stats) == Len(stats) >= BOX_MIN_STATS

\* the first exception raised when several values are evaluated in order
FirstExc(excs) ==
    LET raising == {i \in 1..Len(excs) : excs[i] # ""}
    IN  IF raising = {} THEN ""
        ELSE excs[CHOOSE i \in raising : \A j \in raising : i <= j]

\* lines 271-276: the running maxima after an athlete's three values
BoxUpdate(m, name, pts, reb, ast) ==
    [raised |-> FALSE,
     pts |-> IF BoxBeats(pts, m.pts.value) THEN [name |-> name, value |-> pts] ELSE m.pts,
     reb |-> IF BoxBeats(reb, m.reb.value) THEN [name |-> name, value |-> reb] ELSE m.reb,
     ast |-> IF BoxBeats(ast, m.ast.value) THEN [name |-> name, value |-> ast] ELSE m.ast]

\* lines 266-278: one athlete of a long enough stat line, given the outcomes
\* of the three int() conversions
BoxAthleteStep(m, name, pts, reb, ast) ==
    IF FirstExc(<<pts.exc, reb.exc, ast.exc>>) = "TypeError"
    THEN [m EXCEPT !.raised = TRUE]                          \* not caught at line 277
    ELSE IF FirstExc(<<pts.exc, reb.exc, ast.exc>>) = "ValueError"
    THEN m                                                   \* continue
    ELSE BoxUpdate(m, name, pts.value, reb.value, ast.value)

\* "int(stats[k]) if len(stats) > k and stats[k] else 0", k counted from 0
IntOrZeroAt(stats, k) ==
    IF Len(stats) > k /\ Truthy(stats[k + 1]) THEN int(stats[k + 1])
    ELSE [exc |-> "", value |-> 0]

\* lines 267-269: stats[-1], stats[6] and stats[7] of a stat line that passed
\* the length gate
BoxAthleteRow(m, athlete, stats) ==
    BoxAthleteStep(m, AthleteName(athlete),
                   IntOrZeroAt(stats, Len(stats) - 1),
                   IntOrZeroAt(stats, BOX_REB_INDEX),
                   IntOrZeroAt(stats, BOX_AST_INDEX))

\* One pass of the athlete loop (lines 258-278) from athlete i on; m holds the
\* three running maxima and whether an exception left the loop.
RECURSIVE BoxAthleteLoop(_, _, _)
BoxAthleteLoop(athletes, i, m) ==
    IF i > Len(athletes) \/ m.raised THEN m
    ELSE IF AthleteNameRaises(athletes[i]) THEN [m EXCEPT !.raised = TRUE]
    ELSE IF ~BoxLengthGate(Get(athletes[i], "stats", <<>>))
    THEN BoxAthleteLoop(athletes, i + 1, m)
    ELSE BoxAthleteLoop(athletes, i + 1, BoxAthleteRow(m, athletes[i], Get(athletes[i], "stats", <<>>)))

\* lines 280-285: the categories whose leader has a truthy name
BoxLeadersDict(m) ==
    LET keys == (IF m.pts.name # NoName THEN {"PTS"} ELSE {})
                \cup (IF m.reb.name # NoName THEN {"REB"} ELSE {})
                \cup (IF m.ast.name # NoName THEN {"AST"} ELSE {})
    IN  [k \in keys |-> IF k = "PTS" THEN m.pts
                        ELSE IF k = "REB" THEN m.reb ELSE m.ast]

LeadersAsIs(leaders) == leaders

\* "return leaders if leaders else None" (lines 287, 369, 455)
LeadersOrNone(leaders) == IF leaders # EmptyDict THEN leaders ELSE None

\* lines 280-291: None when an exception left the loop, the leaders otherwise
BoxResult(m) == IF m.raised THEN None ELSE LeadersOrNone(BoxLeadersDict(m))

\* the first team of boxscore.players whose team.homeAway is home_away
\* (lines 227-232); a missing homeAway, None in the code, matches no side
RECURSIVE FindTeam(_, _, _)
FindTeam(players_section, i, home_away) ==
    IF i > Len(players_section) THEN None
    ELSE IF Get(Get(players_section[i], "team", EmptyDict), "homeAway", "") = home_away
         THEN players_section[i]
         ELSE FindTeam(players_section, i + 1, home_away)

_extract_boxscore_basketball_leaders(boxscore, home_away) ==
    IF Get(boxscore, "boxscore", EmptyDict) = None THEN None   \* AttributeError, caught
    ELSE
    LET players_section == Get(Get(boxscore, "boxscore", EmptyDict), "players", <<>>)
        team_data == FindTeam(players_section, 1, home_away)
    IN
    IF team_data = None THEN None
    ELSE
    LET statistics == Get(team_data, "statistics", <<>>)
    IN
    IF statistics = <<>> THEN None
    ELSE IF statistics[1] = EmptyDict THEN None
    ELSE
    LET athletes == Get(statistics[1], "athletes", <<>>)
    IN
    IF athletes = <<>> THEN None
    ELSE
    BoxResult(BoxAthleteLoop(athletes, 1,
                 [raised |-> FALSE,
                  pts |-> [name |-> NoName, value |-> 0],
                  reb |-> [name |-> NoName, value |-> 0],
                  ast |-> [name |-> NoName, value |-> 0]]))


(***************************************************************************)
(* Football leaders from a boxscore: a stub                                *)
(***************************************************************************)

FootballBoxLikeBasketball(boxscore, home_away) ==
    _extract_boxscore_basketball_leaders(boxscore, home_away)

_extract_boxscore_football_leaders(boxscore, home_away) == None

(***************************************************************************)
(* Basketball leaders from the scoreboard competitor (fallback)            *)
(***************************************************************************)

\* next((s for s in stats_section if s.get('name') == name), None)
RECURSIVE FindSection(_, _, _)
FindSection(stats_section, i, name) ==
    IF i > Len(stats_section) THEN None
    ELSE IF Get(stats_section[i], "name", "") = name THEN stats_section[i]
         ELSE FindSection(stats_section, i + 1, name)

SbGreaterOrEqual(value, running) == value >= running

\* the comparison of line 354
SbBeats(value, running) == value > running

\* the athlete loop of one category (lines 349-361); m holds max_value,
\* top_player and whether an exception left the loop
RECURSIVE SbAthleteLoop(_, _, _, _)
SbAthleteLoop(athletes, i, stat_index, m) ==
    IF i > Len(athletes) \/ m.raised THEN m
    ELSE
    LET athlete == athletes[i]
        stats == Get(athlete, "stats", <<>>)
    IN
    IF ~(Len(stats) > stat_index) THEN SbAthleteLoop(athletes, i + 1, stat_index, m)
    ELSE
    LET value == int(stats[stat_index + 1])
    IN
    IF value.exc # "" THEN SbAthleteLoop(athletes, i + 1, stat_index, m)   \* continue
    ELSE IF ~SbBeats(value.value, m.max_value)
    THEN SbAthleteLoop(athletes, i + 1, stat_index, m)
    ELSE IF AthleteNameRaises(athlete) THEN [m EXCEPT !.raised = TRUE]
    ELSE SbAthleteLoop(athletes, i + 1, stat_index,
             [raised |-> FALSE, max_value |-> value.value,
              top_player |-> AthleteName(athlete)])

SbCategory(athletes, stat_type) ==
    SbAthleteLoop(athletes, 1, BASKETBALL_STAT_INDICES[stat_type],
                  [raised |-> FALSE, max_value |-> 0, top_player |-> NoName])

extract_basketball_leaders(competitor_data) ==
    LET stats_section == Get(competitor_data, "statistics", <<>>)
    IN
    IF stats_section = <<>> THEN None
    ELSE
    LET athletes_data == FindSection(stats_section, 1, "athletes")
    IN
    IF athletes_data = None \/ "athletes" \notin DOMAIN athletes_data THEN None
    ELSE
    LET athletes == athletes_data.athletes
        cat == [t \in DOMAIN BASKETBALL_STAT_INDICES |-> SbCategory(athletes, t)]
        keys == {t \in DOMAIN cat : cat[t].top_player # NoName /\ cat[t].max_value > 0}
    IN
    IF athletes = <<>> THEN None
    ELSE IF \E t \in DOMAIN cat : cat[t].raised THEN None
    ELSE LeadersOrNone([t \in keys |->
             [name |-> cat[t].top_player, value |-> cat[t].max_value]])


(***************************************************************************)
(* Name abbreviation for football leaders                                  *)
(***************************************************************************)

\* len(parts[-1]) <= 8 (line 475) and full_name[:10] (line 481)
NAME_LAST_MAX == 8
NAME_TRUNCATE == 10

\* str.split(): the maximal runs of non-whitespace characters
RECURSIVE SplitFrom(_, _, _, _)
SplitFrom(s, i, cur, acc) ==
    IF i > Len(s) THEN (IF cur = <<>> THEN acc ELSE Append(acc, cur))
    ELSE IF s[i] = " "
         THEN SplitFrom(s, i + 1, <<>>, IF cur = <<>> THEN acc ELSE Append(acc, cur))
         ELSE SplitFrom(s, i + 1, Append(cur, s[i]), acc)

split(s) == SplitFrom(s, 1, <<>>, <<>>)

AbbreviateNameStrictLast(full_name) ==
    LET parts == split(full_name)
        last == parts[Len(parts)]
    IN
    IF Len(parts) >= 2
    THEN IF Len(last) < NAME_LAST_MAX THEN last
         ELSE <<parts[1][1], ".", " ">> \o last
    ELSE IF Len(full_name) > NAME_TRUNCATE THEN SubSeq(full_name, 1, NAME_TRUNCATE)
         ELSE full_name

_abbreviate_name(full_name) ==
    LET parts == split(full_name)
        last == parts[Len(parts)]
    IN
    IF Len(parts) >= 2
    THEN IF Len(last) <= NAME_LAST_MAX THEN last
         ELSE <<parts[1][1], ".", " ">> \o last
    ELSE IF Len(full_name) > NAME_TRUNCATE THEN SubSeq(full_name, 1, NAME_TRUNCATE)
         ELSE full_name

(***************************************************************************)
(* Football leaders from the scoreboard competitor (fallback)              *)
(***************************************************************************)

\* len(stats) >= 4 (lines 400, 420, 440)
FOOTBALL_MIN_STATS == 4

\* section name, position key, offsets of yards and touchdowns in the stat
\* array (lines 396-403, 416-423, 436-443)
FootballPositions ==
    <<[section |-> "passing",   key |-> "QB", yds |-> 2, tds |-> 3],
      [section |-> "receiving", key |-> "WR", yds |-> 1, tds |-> 3],
      [section |-> "rushing",   key |-> "RB", yds |-> 1, tds |-> 3]>>

\* One position block: whether it raised out of the block, whether it made
\* an entry, and the entry.
FootballEntry(stats_section, pos) ==
    LET data == FindSection(stats_section, 1, pos.section)
        none == [raised |-> FALSE, present |-> FALSE, entry |-> EmptyDict]
    IN
    IF data = None \/ Get(data, "athletes", <<>>) = <<>> THEN none
    ELSE
    LET first == data.athletes[1]
        stats == Get(first, "stats", <<>>)
    IN
    IF first = None THEN [none EXCEPT !.raised = TRUE]       \* AttributeError
    ELSE IF ~(Len(stats) >= FOOTBALL_MIN_STATS) THEN none
    ELSE IF Get(first, "athlete", EmptyDict) = None
    THEN [none EXCEPT !.raised = TRUE]                       \* AttributeError
    ELSE
    [raised |-> FALSE, present |-> TRUE,
     entry |-> [name |-> _abbreviate_name(
                    Get(Get(first, "athlete", EmptyDict), "displayName", Unknown)),
                stats |-> Format(stats[pos.yds + 1]) \o " YDS, "
                          \o Format(stats[pos.tds + 1]) \o " TD"]]

extract_football_leaders(competitor_data) ==
    LET stats_section == Get(competitor_data, "statistics", <<>>)
    IN
    IF stats_section = <<>> THEN None
    ELSE
    LET e == [i \in DOMAIN FootballPositions |->
                 FootballEntry(stats_section, FootballPositions[i])]
        keys == {FootballPositions[i].key : i \in {j \in DOMAIN e : e[j].present}}
        of(k) == CHOOSE i \in DOMAIN e : FootballPositions[i].key = k
    IN
    IF \E i \in DOMAIN e : e[i].raised THEN None
    ELSE LeadersOrNone([k \in keys |-> e[of(k)].entry])


(***************************************************************************)
(* The event parser                                                        *)
(***************************************************************************)

\* what a collaborator call does: it raises, or returns a value
Raises == [raises |-> TRUE, value |-> None]
Returns(v) == [raises |-> FALSE, value |-> v]

\* bool(d) of a dict or None
TruthyDict(d) == d # None /\ d # EmptyDict

\* _fetch_game_boxscore: None for an unknown league, the collaborator's
\* response otherwise, None when the collaborator raises
_fetch_game_boxscore(game_id, league_key, get) ==
    IF league_key \notin DOMAIN LEAGUE_MAP THEN None
    ELSE IF get[game_id].raises THEN None
    ELSE get[game_id].value

\* next((c for c in competitors if c.get('homeAway') == side), None)
RECURSIVE FindCompetitorFrom(_, _, _)
FindCompetitorFrom(competitors, i, side) ==
    IF i > Len(competitors) THEN None
    ELSE IF Get(competitors[i], "homeAway", JNull) = side THEN competitors[i]
         ELSE FindCompetitorFrom(competitors, i + 1, side)

FindCompetitorByPosition(competitors, side) ==
    LET i == IF side = "home" THEN 1 ELSE 2
    IN  IF i > Len(competitors) THEN None ELSE competitors[i]

\* lines 132-133
FindCompetitor(competitors, side) == FindCompetitorFrom(competitors, 1, side)

FallbackLeadersOtherFamily(league_key, team) ==
    IF league_key \in {"nba", "ncaam"} THEN extract_football_leaders(team)
    ELSE extract_basketball_leaders(team)

\* lines 163-168: the scoreboard fallback of the league's sport family
FallbackLeaders(league_key, team) ==
    IF league_key \in {"nba", "ncaam"} THEN extract_basketball_leaders(team)
    ELSE extract_football_leaders(team)

\* lines 155-160: the boxscore extractor of the league's sport family
BoxscoreLeaders(league_key, boxscore, home_away) ==
    IF league_key \in {"nba", "ncaam"}
    THEN _extract_boxscore_basketball_leaders(boxscore, home_away)
    ELSE _extract_boxscore_football_leaders(boxscore, home_away)

GameLeadersPreferScoreboard(game_id, league_key, home_team, away_team, get) ==
    IF ~Truthy(game_id) THEN [keys |-> EmptyDict, requests |-> <<>>]
    ELSE IF league_key \notin {"nba", "ncaam", "nfl", "ncaaf"}
    THEN [keys |-> EmptyDict,
          requests |-> IF league_key \in DOMAIN LEAGUE_MAP THEN <<game_id>> ELSE <<>>]
    ELSE IF TruthyDict(_fetch_game_boxscore(game_id, league_key, get))
            /\ BoxscoreLeaders(league_key, _fetch_game_boxscore(game_id, league_key, get),
                               "home") # None
    THEN [keys |-> [home_leaders |->
                        BoxscoreLeaders(league_key,
                            _fetch_game_boxscore(game_id, league_key, get), "home"),
                    away_leaders |->
                        BoxscoreLeaders(league_key,
                            _fetch_game_boxscore(game_id, league_key, get), "away")],
          requests |-> <<game_id>>]
    ELSE [keys |-> [home_leaders |-> FallbackLeaders(league_key, home_team),
                    away_leaders |-> FallbackLeaders(league_key, away_team)],
          requests |-> <<game_id>>]

\* lines 150-168: the leader keys added to game_data, and the boxscore
\* requests made
GameLeaders(game_id, league_key, home_team, away_team, get) ==
    IF ~Truthy(game_id) THEN [keys |-> EmptyDict, requests |-> <<>>]
    ELSE
    LET boxscore == _fetch_game_boxscore(game_id, league_key, get)
        requests == IF league_key \in DOMAIN LEAGUE_MAP THEN <<game_id>> ELSE <<>>
    IN
    IF league_key \notin {"nba", "ncaam", "nfl", "ncaaf"}
    THEN [keys |-> EmptyDict, requests |-> requests]
    ELSE IF TruthyDict(boxscore)
    THEN [keys |-> [home_leaders |-> BoxscoreLeaders(league_key, boxscore, "home"),
                    away_leaders |-> BoxscoreLeaders(league_key, boxscore, "away")],
          requests |-> requests]
    ELSE [keys |-> [home_leaders |-> FallbackLeaders(league_key, home_team),
                    away_leaders |-> FallbackLeaders(league_key, away_team)],
          requests |-> requests]

\* lines 156-170: game_data with the leader keys assigned to it
WithLeaders(game_data, leaders) ==
    [raised |-> FALSE, game |-> game_data @@ leaders.keys, requests |-> leaders.requests]

\* The try block of _parse_game_event (lines 123-170): whether it raised,
\* what it returned, and the boxscore requests it made.
ParseBody(event, league_key, get) ==
    LET raise == [raised |-> TRUE, game |-> None, requests |-> <<>>]
        reject == [raised |-> FALSE, game |-> None, requests |-> <<>>]
        competitions == Get(event, "competitions", <<EmptyDict>>)
    IN
    IF competitions = <<>> THEN raise                          \* IndexError
    ELSE
    LET competition == competitions[1]
        status == Get(event, "status", EmptyDict)
        game_id == Get(event, "id", JNull)
    IN
    IF competition = None THEN raise                           \* AttributeError
    ELSE
    LET competitors == Get(competition, "competitors", <<>>)
        home_team == FindCompetitor(competitors, "home")
        away_team == FindCompetitor(competitors, "away")
    IN
    IF Len(competitors) < 2 THEN reject
    ELSE IF home_team = None \/ away_team = None THEN reject
    ELSE IF Get(home_team, "team", EmptyDict) = None
            \/ Get(away_team, "team", EmptyDict) = None THEN raise   \* AttributeError
    ELSE
    LET home_score == IF "score" \in DOMAIN home_team THEN int(home_team.score)
                      ELSE [exc |-> "", value |-> 0]
        away_score == IF "score" \in DOMAIN away_team THEN int(away_team.score)
                      ELSE [exc |-> "", value |-> 0]
    IN
    IF home_score.exc # "" \/ away_score.exc # "" THEN raise   \* ValueError, TypeError
    ELSE IF status = None THEN raise                           \* AttributeError
    ELSE IF Get(status, "type", EmptyDict) = None THEN raise   \* AttributeError
    ELSE
    LET game_data ==
            [id |-> game_id,
             home_abbr |-> Get(Get(home_team, "team", EmptyDict), "abbreviation", "HOME"),
             away_abbr |-> Get(Get(away_team, "team", EmptyDict), "abbreviation", "AWAY"),
             home_score |-> home_score.value,
             away_score |-> away_score.value,
             period |-> Get(status, "period", 0),
             clock |-> Get(status, "displayClock", ""),
             period_text |-> Get(Get(status, "type", EmptyDict), "shortDetail", "")]
    IN  WithLeaders(game_data, GameLeaders(game_id, league_key, home_team, away_team, get))

\* _parse_game_event: the game, or None when the try block raised (lines
\* 172-174)
CatchParseError(body) ==
    IF body.raised THEN [game |-> None, requests |-> body.requests]
    ELSE [game |-> body.game, requests |-> body.requests]

_parse_game_event(event, league_key, get) ==
    CatchParseError(ParseBody(event, league_key, get))

(***************************************************************************)
(* The live game fetcher                                                   *)
(***************************************************************************)

\* lines 97-99: "if game_info: live_games.append(game_info)"
AppendParsed(acc, parsed) ==
    [raised |-> FALSE,
     live_games |-> IF parsed.game # None THEN Append(acc.live_games, parsed.game)
                    ELSE acc.live_games,
     requests |-> acc.requests \o parsed.requests]

\* The event loop (lines 83-102) from event i on; acc holds live_games, the
\* boxscore requests made and whether an exception left the loop.
RECURSIVE EventLoop(_, _, _, _, _, _)
EventLoop(events, i, league_key, max_games, get, acc) ==
    IF i > Len(events) \/ acc.raised THEN acc
    ELSE IF Len(acc.live_games) >= max_games THEN acc                  \* break
    ELSE
    LET event == events[i]
    IN
    IF event = None \/ Get(event, "status", EmptyDict) = None
       \/ Get(Get(event, "status", EmptyDict), "type", EmptyDict) = None
    THEN [acc EXCEPT !.raised = TRUE]                                  \* AttributeError
    ELSE
    LET status_state ==
            Get(Get(Get(event, "status", EmptyDict), "type", EmptyDict), "state", JNull)
    IN
    IF status_state # "in"
    THEN EventLoop(events, i + 1, league_key, max_games, get, acc)     \* continue
    ELSE
    EventLoop(events, i + 1, league_key, max_games, get,
              AppendParsed(acc, _parse_game_event(event, league_key, get)))

\* The try block of fetch_live_games (lines 66-105).
FetchBody(league_key, max_games, scoreboard_response, get) ==
    LET empty == [raised |-> FALSE, live_games |-> <<>>, requests |-> <<>>]
        scoreboard == scoreboard_response.value
    IN
    IF scoreboard_response.raises THEN [empty EXCEPT !.raised = TRUE]
    ELSE IF ~TruthyDict(scoreboard) \/ "events" \notin DOMAIN scoreboard THEN empty
    ELSE EventLoop(scoreboard.events, 1, league_key, max_games, get, empty)

PropagateFetchError(body) ==
    IF body.raised THEN [outcome |-> Raises, requests |-> body.requests]
    ELSE [outcome |-> Returns(body.live_games), requests |-> body.requests]

\* "except Exception: return []" (lines 107-109)
CatchFetchError(body) ==
    IF body.raised THEN [outcome |-> Returns(<<>>), requests |-> body.requests]
    ELSE [outcome |-> Returns(body.live_games), requests |-> body.requests]

fetch_live_games(league_key, max_games, scoreboard_response, get) ==
    IF league_key \notin DOMAIN LEAGUE_MAP
    THEN [outcome |-> Returns(<<>>), requests |-> <<>>]
    ELSE CatchFetchError(FetchBody(league_key, max_games, scoreboard_response, get))

(***************************************************************************)
(* Inputs of the extractors                                                *)
(***************************************************************************)

\* the longest athlete list of a team
MaxAthletes == 2

SeqsUpTo(S, n) == UNION {[1..k -> S] : k \in 0..n}

AthleteInfos ==
    {[shortName |-> <<"A">>, displayName |-> <<"A", "l">>],
     [displayName |-> <<"B">>],
     [shortName |-> <<>>],
     EmptyDict}

\* a boxscore stat line of n values: rebounds, assists and (last) points
BoxLine(n, reb, ast, pts) ==
    [i \in 1..n |-> IF i = n THEN pts
                    ELSE IF i = BOX_REB_INDEX + 1 THEN reb
                    ELSE IF i = BOX_AST_INDEX + 1 THEN ast ELSE "0"]

BoxStatLines ==
    {BoxLine(13, "1", "2", "2"), BoxLine(13, "2", "1", "2"),
     BoxLine(13, "0", "", JNull), BoxLine(13, "2", "2", "x"),
     BoxLine(14, "1", "1", "3"), BoxLine(12, "3", "3", "3"), <<>>}

BoxAthletes == {[athlete |-> a, stats |-> l] : a \in AthleteInfos, l \in BoxStatLines}

AwayAthletes ==
    <<[athlete |-> [shortName |-> <<"Z">>], stats |-> BoxLine(13, "7", "7", "7")]>>

BoxPayload(home_athletes) ==
    [boxscore |-> [players |->
        <<[team |-> [homeAway |-> "away"], statistics |-> <<[athletes |-> AwayAthletes]>>],
          [team |-> [homeAway |-> "home"], statistics |-> <<[athletes |-> home_athletes]>>]>>]]

\* payloads without the expected structure
OddBoxPayloads ==
    {[boxscore |-> None],
     [header |-> EmptyDict],
     [boxscore |-> [players |-> <<>>]],
     [boxscore |-> [players |-> <<[team |-> [homeAway |-> "away"],
                                  statistics |-> <<[athletes |-> AwayAthletes]>>]>>]],
     [boxscore |-> [players |-> <<[team |-> [homeAway |-> "home"]]>>]],
     [boxscore |-> [players |-> <<[team |-> [homeAway |-> "home"],
                                  statistics |-> <<EmptyDict>>]>>]]}

SmallBoxPayloads ==
    OddBoxPayloads \cup {BoxPayload(l) : l \in SeqsUpTo(BoxAthletes, 1)}

\* a scoreboard stat line of n values
SbLine(n, pts, reb, ast) ==
    [i \in 1..n |-> IF i = BASKETBALL_STAT_INDICES.PTS + 1 THEN pts
                    ELSE IF i = BASKETBALL_STAT_INDICES.REB + 1 THEN reb
                    ELSE IF i = BASKETBALL_STAT_INDICES.AST + 1 THEN ast ELSE "0"]

SbStatLines ==
    {SbLine(16, "2", "1", "2"), SbLine(16, "2", "2", "1"),
     SbLine(16, "0", "", JNull), SbLine(16, "x", "2", "3"),
     SbLine(12, "0", "3", "3"), SbLine(11, "0", "7", "0"), <<>>}

SbAthletes == {[athlete |-> a, stats |-> l] : a \in AthleteInfos, l \in SbStatLines}

BasketballCompetitor(side, athletes) ==
    [homeAway |-> side, team |-> [abbreviation |-> "LAL"], score |-> "7",
     statistics |-> <<[name |-> "rebounds"],
                      [name |-> "athletes", athletes |-> athletes]>>]

OddCompetitors ==
    {[homeAway |-> "home"],
     [homeAway |-> "home", statistics |-> <<>>],
     [homeAway |-> "home", statistics |-> <<[name |-> "rebounds"]>>],
     [homeAway |-> "home", statistics |-> <<[name |-> "athletes"]>>]}

Mahomes == <<"P", "a", "t", " ", "M", "a", "h", "o", "m", "e", "s">>
Antetokounmpo == <<"G", "i", " ", "A", "n", "t", "e", "t", "o", "k", "o", "u", "n", "m", "p", "o">>

\* the shapes one football section takes; <<>> stands for "no such section"
FootballSectionShapes(name) ==
    {<<>>,
     <<[name |-> name, athletes |-> <<>>]>>,
     <<[name |-> name,
        athletes |-> <<[athlete |-> [displayName |-> Mahomes],
                        stats |-> <<"7", "2", "3">>]>>]>>,
     <<[name |-> name,
        athletes |-> <<[athlete |-> [displayName |-> Antetokounmpo],
                        stats |-> <<"0", "1", "2", "3">>],
                       [athlete |-> [displayName |-> Mahomes],
                        stats |-> <<"0", "7", "7", "7">>]>>]>>,
     <<[name |-> name,
        athletes |-> <<[stats |-> <<"1", JNull, "x", "", "7">>]>>]>>,
     <<[name |-> name, athletes |-> <<None>>]>>,
     <<[name |-> name,
        athletes |-> <<[athlete |-> None, stats |-> <<"0", "1", "2", "3">>]>>]>>}

FootballCompetitors ==
    {[homeAway |-> "home", team |-> [abbreviation |-> "KC"], score |-> "7",
      statistics |-> r \o p \o q] :
        p \in FootballSectionShapes("passing"),
        q \in FootballSectionShapes("receiving"),
        r \in FootballSectionShapes("rushing")}

ExtractCalls ==
    {[fn |-> "_extract_boxscore_basketball_leaders", boxscore |-> BoxPayload(l),
      home_away |-> "home"] : l \in SeqsUpTo(BoxAthletes, MaxAthletes)}
    \cup {[fn |-> "_extract_boxscore_basketball_leaders", boxscore |-> b,
           home_away |-> h] : b \in SmallBoxPayloads, h \in {"home", "away"}}
    \cup {[fn |-> "_extract_boxscore_football_leaders", boxscore |-> b,
           home_away |-> h] : b \in SmallBoxPayloads, h \in {"home", "away"}}
    \cup {[fn |-> "extract_basketball_leaders",
           competitor_data |-> BasketballCompetitor("home", l)] :
              l \in SeqsUpTo(SbAthletes, MaxAthletes)}
    \cup {[fn |-> "extract_basketball_leaders", competitor_data |-> c] :
              c \in OddCompetitors}
    \cup {[fn |-> "extract_football_leaders", competitor_data |-> c] :
              c \in FootballCompetitors \cup OddCompetitors}

(***************************************************************************)
(* The extractors called on their own                                      *)
(***************************************************************************)

NotReturned == [pending |-> TRUE]

NoApi == [unused |-> TRUE]

InitExtract ==
    /\ call \in ExtractCalls
    /\ api = NoApi
    /\ ret = NotReturned
    /\ pc = "call"

ExtractBoxscoreBasketballLeaders ==
    /\ pc = "call"
    /\ call.fn = "_extract_boxscore_basketball_leaders"
    /\ ret' = Returns(_extract_boxscore_basketball_leaders(call.boxscore, call.home_away))
    /\ pc' = "done"
    /\ UNCHANGED <<call, api>>

ExtractBoxscoreFootballLeaders ==
    /\ pc = "call"
    /\ call.fn = "_extract_boxscore_football_leaders"
    /\ ret' = Returns(_extract_boxscore_football_leaders(call.boxscore, call.home_away))
    /\ pc' = "done"
    /\ UNCHANGED <<call, api>>

ExtractBasketballLeaders ==
    /\ pc = "call"
    /\ call.fn = "extract_basketball_leaders"
    /\ ret' = Returns(extract_basketball_leaders(call.competitor_data))
    /\ pc' = "done"
    /\ UNCHANGED <<call, api>>

ExtractFootballLeaders ==
    /\ pc = "call"
    /\ call.fn = "extract_football_leaders"
    /\ ret' = Returns(extract_football_leaders(call.competitor_data))
    /\ pc' = "done"
    /\ UNCHANGED <<call, api>>

NextExtract ==
    \/ ExtractBoxscoreBasketballLeaders
    \/ ExtractBoxscoreFootballLeaders
    \/ ExtractBasketballLeaders
    \/ ExtractFootballLeaders

SpecExtract == InitExtract /\ [][NextExtract]_vars


(***************************************************************************)
(* Inputs of the event parser and of the live game fetcher                 *)
(***************************************************************************)

\* the longest events list of a scoreboard
MaxEvents == 3

GameId(i) == ToString(400 + i)

StatusOf(state) ==
    [type |-> [state |-> state, shortDetail |-> "Q2"], period |-> 2,
     displayClock |-> "5:00"]

StarAthlete ==
    [athlete |-> [shortName |-> <<"A">>], stats |-> SbLine(16, "7", "3", "2")]

\* scoreboard statistics of a competitor, with sections of both families
CompetitorStatistics(passer) ==
    <<[name |-> "athletes", athletes |-> <<StarAthlete>>],
      [name |-> "passing",
       athletes |-> <<[athlete |-> [displayName |-> passer],
                       stats |-> <<"1", "2", "3", "7">>]>>]>>

HomeCompetitor ==
    [homeAway |-> "home", team |-> [abbreviation |-> "LAL"], score |-> "7",
     statistics |-> CompetitorStatistics(Mahomes)]

AwayCompetitor ==
    [homeAway |-> "away", team |-> [abbreviation |-> "BOS"], score |-> "3",
     statistics |-> <<>>]

GoodBoxscore ==
    BoxPayload(<<[athlete |-> [shortName |-> <<"B">>], stats |-> BoxLine(13, "1", "2", "3")]>>)

\* the event at position i of a scoreboard, by kind
MkEvent(kind, i) ==
    LET base == [id |-> GameId(i), status |-> StatusOf("in"),
                 competitions |-> <<[competitors |-> <<HomeCompetitor, AwayCompetitor>>]>>]
    IN  CASE kind = "live" -> base
          [] kind = "pre" -> [base EXCEPT !.status = StatusOf("pre")]
          [] kind = "no_away" ->
                 [base EXCEPT !.competitions =
                     <<[competitors |-> <<HomeCompetitor, HomeCompetitor>>]>>]
          [] kind = "bad_status" -> [base EXCEPT !.status = None]
          [] kind = "bad_score" ->
                 [base EXCEPT !.competitions =
                     <<[competitors |->
                         <<[HomeCompetitor EXCEPT !.score = "x"], AwayCompetitor>>]>>]

BoxResponse(kind) ==
    CASE kind = "payload" -> Returns(GoodBoxscore)
      [] kind = "raises" -> Raises
      [] kind = "none" -> Returns(None)
      [] kind = "empty" -> Returns(EmptyDict)

\* an event kind with what the boxscore collaborator answers for its id
FetchCases ==
    {[event |-> "live", box |-> b] : b \in {"payload", "raises", "none"}}
    \cup {[event |-> e, box |-> "payload"] :
              e \in {"pre", "no_away", "bad_status", "bad_score"}}

LeagueKeys == {"nba", "nfl", "ncaam", "ncaaf", "mlb"}

EventsOf(cases) == [i \in 1..Len(cases) |-> MkEvent(cases[i].event, i)]

GetOf(cases) ==
    [id \in {GameId(i) : i \in 1..Len(cases)} |->
        BoxResponse(cases[CHOOSE i \in 1..Len(cases) : GameId(i) = id].box)]

\* scoreboard responses that carry no well-formed events list
OddScoreboards ==
    {Raises, Returns(None), Returns(EmptyDict), Returns([leagues |-> <<>>]),
     Returns([events |-> <<None>>])}

\* dict d without key k
Without(d, k) == [x \in DOMAIN d \ {k} |-> d[x]]

HomeVariants ==
    {h @@ Without(Without(HomeCompetitor, "team"), "score") :
        h \in {t @@ sc :
                 t \in {[team |-> [abbreviation |-> "LAL"]], [team |-> EmptyDict],
                        [team |-> None], EmptyDict},
                 sc \in {[score |-> "7"], [score |-> "x"], [score |-> JNull],
                         EmptyDict}}}

AwayVariants ==
    {AwayCompetitor, [homeAway |-> "away"], [AwayCompetitor EXCEPT !.score = ""]}

Untagged == Without(AwayCompetitor, "homeAway")

CompetitorLists ==
    {<<h, a>> : h \in HomeVariants, a \in AwayVariants}
    \cup {<<>>, <<HomeCompetitor>>, <<AwayCompetitor, HomeCompetitor>>,
          <<HomeCompetitor, HomeCompetitor>>, <<AwayCompetitor, AwayCompetitor>>,
          <<HomeCompetitor, Untagged>>, <<Untagged, HomeCompetitor, AwayCompetitor>>,
          <<HomeCompetitor, HomeCompetitor, AwayCompetitor>>}

ParseEvents ==
    {i @@ st @@ c :
        i \in {[id |-> GameId(1)], [id |-> ""], EmptyDict},
        st \in {[status |-> StatusOf("in")], [status |-> None],
                [status |-> [type |-> None]], EmptyDict},
        c \in {[competitions |-> <<[competitors |-> l]>>] : l \in CompetitorLists}
              \cup {EmptyDict, [competitions |-> <<>>], [competitions |-> <<None>>],
                    [competitions |-> <<EmptyDict>>]}}

(***************************************************************************)
(* _parse_game_event called on one event                                   *)
(***************************************************************************)

InitParse ==
    /\ \E event \in ParseEvents, league_key \in DOMAIN LEAGUE_MAP :
           call = [fn |-> "_parse_game_event", event |-> event,
                   league_key |-> league_key]
    /\ \E b \in {"payload", "raises", "none", "empty"} :
           api = [scoreboard |-> Returns(None), get |-> (GameId(1) :> BoxResponse(b)),
                  requests |-> <<>>]
    /\ ret = NotReturned
    /\ pc = "call"

ParseGameEvent ==
    /\ pc = "call"
    /\ call.fn = "_parse_game_event"
    /\ \E r \in {_parse_game_event(call.event, call.league_key, api.get)} :
           /\ ret' = Returns(r.game)
           /\ api' = [api EXCEPT !.requests = r.requests]
    /\ pc' = "done"
    /\ UNCHANGED call

NextParse == ParseGameEvent

SpecParse == InitParse /\ [][NextParse]_vars

(***************************************************************************)
(* fetch_live_games called by the plugin                                   *)
(***************************************************************************)

Init ==
    /\ \E league_key \in LeagueKeys, max_games \in -1..MaxEvents :
           call = [fn |-> "fetch_live_games", league_key |-> league_key,
                   max_games |-> max_games]
    /\ \/ \E cases \in SeqsUpTo(FetchCases, MaxEvents) :
              api = [scoreboard |-> Returns([events |-> EventsOf(cases)]),
                     get |-> GetOf(cases), requests |-> <<>>]
       \/ \E sb \in OddScoreboards :
              api = [scoreboard |-> sb, get |-> EmptyDict, requests |-> <<>>]
    /\ ret = NotReturned
    /\ pc = "call"

FetchLiveGames ==
    /\ pc = "call"
    /\ call.fn = "fetch_live_games"
    /\ \E r \in {fetch_live_games(call.league_key, call.max_games,
                                   api.scoreboard, api.get)} :
           /\ ret' = r.outcome
           /\ api' = [api EXCEPT !.requests = r.requests]
    /\ pc' = "done"
    /\ UNCHANGED call

Next == FetchLiveGames

Spec == Init /\ [][Next]_vars


(***************************************************************************)
(* Properties of the live game fetcher                                     *)
(***************************************************************************)

Done(fn) == pc = "done" /\ call.fn = fn

\* status.type.state of an event, JNull when any of the three is missing
StateOf(event) ==
    Get(Get(Get(event, "status", EmptyDict), "type", EmptyDict), "state", JNull)

ScoreboardFailed ==
    \/ api.scoreboard.raises
    \/ ~TruthyDict(api.scoreboard.value)
    \/ "events" \notin DOMAIN api.scoreboard.value

\* C1: fetch_live_games never raises: whatever the league key, max_games and
\* the collaborators do, it returns a list, and the list is empty when the
\* league key is unknown or the scoreboard fetch fails.
C1_NeverRaises ==
    Done("fetch_live_games") =>
        /\ ~ret.raises
        /\ (call.league_key \notin DOMAIN LEAGUE_MAP \/ ScoreboardFailed)
               => ret.value = <<>>

C1_Witness ==
    /\ Done("fetch_live_games")
    /\ call.league_key \in DOMAIN LEAGUE_MAP
    /\ \/ api.scoreboard.raises
       \/ /\ ~ScoreboardFailed
          /\ api.scoreboard.value.events = <<None>>
    /\ ret = Returns(<<>>)

\* the records of the events, in order, that are in progress and parse
RECURSIVE LiveRecords(_, _, _, _)
LiveRecords(events, i, league_key, get) ==
    IF i > Len(events) THEN <<>>
    ELSE
    LET game == _parse_game_event(events[i], league_key, get).game
        rest == LiveRecords(events, i + 1, league_key, get)
    IN  IF StateOf(events[i]) = "in" /\ game # None THEN <<game>> \o rest ELSE rest

Prefix(seq, n) == SubSeq(seq, 1, IF n < Len(seq) THEN n ELSE Len(seq))

\* C2: for max_games >= 0 the returned list is exactly the first max_games
\* successfully parsed records of the events whose status state is "in", in
\* upstream order.
C2_FirstLiveRecords ==
    (Done("fetch_live_games") /\ call.league_key \in DOMAIN LEAGUE_MAP
        /\ ~ScoreboardFailed /\ call.max_games >= 0)
    => ret = Returns(Prefix(LiveRecords(api.scoreboard.value.events, 1,
                                        call.league_key, api.get),
                            call.max_games))

(***************************************************************************)
(* Properties of the event parser                                          *)
(***************************************************************************)

\* the competitors of the event's first competition
EventCompetitors(event) ==
    LET competitions == Get(event, "competitions", <<EmptyDict>>)
    IN  IF competitions = <<>> THEN <<>>
        ELSE IF competitions[1] = None THEN <<>>
        ELSE Get(competitions[1], "competitors", <<>>)

Tagged(event, side) ==
    {i \in DOMAIN EventCompetitors(event) :
        Get(EventCompetitors(event)[i], "homeAway", JNull) = side}

\* the first competitor of the event tagged side
TeamOf(event, side) ==
    EventCompetitors(event)[CHOOSE i \in Tagged(event, side) :
                                \A j \in Tagged(event, side) : i <= j]

HasPair(event) ==
    /\ Len(EventCompetitors(event)) >= 2
    /\ Tagged(event, "home") # {}
    /\ Tagged(event, "away") # {}

\* C3: an event with fewer than two competitors, or without a competitor
\* tagged home or without one tagged away, yields no record.
C3_RejectsIncompleteEvents ==
    (Done("_parse_game_event") /\ ~HasPair(call.event)) => ret = Returns(None)

C3_Witness ==
    /\ Done("_parse_game_event")
    /\ Len(EventCompetitors(call.event)) >= 2
    /\ Tagged(call.event, "home") # {}
    /\ Tagged(call.event, "away") = {}
    /\ ret = Returns(None)

\* the event has a home/away pair and nothing but its abbreviation and score
\* fields may be missing or malformed
WellFormedButAbbrAndScore(event) ==
    /\ HasPair(event)
    /\ Get(event, "status", EmptyDict) # None
    /\ Get(Get(event, "status", EmptyDict), "type", EmptyDict) # None
    /\ \A side \in {"home", "away"} :
           Get(TeamOf(event, side), "team", EmptyDict) # None

ScoreOrZero(team) ==
    IF "score" \in DOMAIN team /\ team.score \in DOMAIN Numerals
    THEN Numerals[team.score] ELSE 0

\* C4: an event with a valid home/away pair is never dropped because of a
\* missing or malformed abbreviation or score: a missing abbreviation becomes
\* HOME/AWAY and a missing or non-numeric score becomes 0 in the record.
C4_DefaultsAbbrAndScore ==
    (Done("_parse_game_event") /\ WellFormedButAbbrAndScore(call.event)) =>
        /\ ~ret.raises
        /\ ret.value # None
        /\ ret.value.home_abbr =
               Get(Get(TeamOf(call.event, "home"), "team", EmptyDict), "abbreviation", "HOME")
        /\ ret.value.away_abbr =
               Get(Get(TeamOf(call.event, "away"), "team", EmptyDict), "abbreviation", "AWAY")
        /\ ret.value.home_score = ScoreOrZero(TeamOf(call.event, "home"))
        /\ ret.value.away_score = ScoreOrZero(TeamOf(call.event, "away"))

\* the scoreboard fallback extractor of the league's sport family
FamilyFallback(league_key, team) ==
    IF LEAGUE_MAP[league_key][1] = "basketball"
    THEN extract_basketball_leaders(team) ELSE extract_football_leaders(team)

\* the boxscore of the event was requested and the request failed
BoxscoreFetchFailed ==
    /\ api.requests # <<>>
    /\ \/ api.get[api.requests[1]].raises
       \/ ~TruthyDict(api.get[api.requests[1]].value)

\* C5: when the boxscore fetch of an event fails (the collaborator raises or
\* returns nothing), the event is still emitted, with the scoreboard fallback
\* extractor's results of the league's sport family as its leaders.
C5_BoxscoreFailureFallsBack ==
    (Done("_parse_game_event") /\ BoxscoreFetchFailed) =>
        /\ ret.value # None
        /\ {"home_leaders", "away_leaders"} \subseteq DOMAIN ret.value
        /\ ret.value.home_leaders =
               FamilyFallback(call.league_key, TeamOf(call.event, "home"))
        /\ ret.value.away_leaders =
               FamilyFallback(call.league_key, TeamOf(call.event, "away"))

C5_Witness ==
    /\ Done("_parse_game_event")
    /\ BoxscoreFetchFailed
    /\ api.get[api.requests[1]].raises
    /\ ret.value # None
    /\ ret.value.home_leaders # None

\* C6: an event without identifier that parses carries home_leaders and
\* away_leaders, the scoreboard fallback extractor's results.
C6_NoIdentifierFallsBack ==
    (Done("_parse_game_event") /\ "id" \notin DOMAIN call.event /\ ret.value # None) =>
        /\ {"home_leaders", "away_leaders"} \subseteq DOMAIN ret.value
        /\ ret.value.home_leaders =
               FamilyFallback(call.league_key, TeamOf(call.event, "home"))
        /\ ret.value.away_leaders =
               FamilyFallback(call.league_key, TeamOf(call.event, "away"))


(***************************************************************************)
(* Properties of the extractors                                            *)
(***************************************************************************)

ExtractorNames ==
    {"_extract_boxscore_basketball_leaders", "_extract_boxscore_football_leaders",
     "extract_basketball_leaders", "extract_football_leaders"}

CategoryKeys == {"PTS", "REB", "AST", "QB", "WR", "RB"}

\* the athlete list the basketball extractor called reads; defined when the
\* payload has that list
CallAthletes ==
    IF call.fn = "_extract_boxscore_basketball_leaders"
    THEN FindTeam(call.boxscore.boxscore.players, 1, call.home_away).statistics[1].athletes
    ELSE FindSection(call.competitor_data.statistics, 1, "athletes").athletes

\* C7: every extraction entry point returns None or a non-empty mapping of
\* categories: never an empty mapping, and it never raises.
C7_NoneOrNonEmpty ==
    (pc = "done" /\ call.fn \in ExtractorNames) =>
        /\ ~ret.raises
        /\ \/ ret.value = None
           \/ /\ ret.value # EmptyDict
              /\ DOMAIN ret.value \subseteq CategoryKeys

C7_Witness ==
    /\ Done("extract_basketball_leaders")
    /\ ret.value = None
    /\ "statistics" \in DOMAIN call.competitor_data
    /\ FindSection(call.competitor_data.statistics, 1, "athletes") # None
    /\ "athletes" \in DOMAIN FindSection(call.competitor_data.statistics, 1, "athletes")
    /\ \E i \in DOMAIN CallAthletes :
           Len(CallAthletes[i].stats) > BASKETBALL_STAT_INDICES.PTS

LongEnough(athlete) == Len(Get(athlete, "stats", <<>>)) >= BOX_MIN_STATS

StripTeam(team) ==
    IF "statistics" \notin DOMAIN team THEN team
    ELSE IF team.statistics = <<>> THEN team
    ELSE IF "athletes" \notin DOMAIN team.statistics[1] THEN team
    ELSE [team EXCEPT !.statistics[1].athletes = SelectSeq(@, LongEnough)]

\* the boxscore payload without the athletes of fewer than 13 stat values
RemoveShort(boxscore) ==
    IF "boxscore" \notin DOMAIN boxscore THEN boxscore
    ELSE IF boxscore.boxscore = None THEN boxscore
    ELSE IF "players" \notin DOMAIN boxscore.boxscore THEN boxscore
    ELSE [boxscore EXCEPT !.boxscore.players = [i \in DOMAIN @ |-> StripTeam(@[i])]]

ComparedValue(athlete, k) ==
    LET stats == Get(athlete, "stats", <<>>)
        n == Len(stats)
    IN
    IF call.fn = "_extract_boxscore_basketball_leaders"
    THEN LET used == <<stats[n], stats[BOX_REB_INDEX + 1], stats[BOX_AST_INDEX + 1]>>
             tok == IF k = "PTS" THEN used[1] ELSE IF k = "REB" THEN used[2] ELSE used[3]
         IN  IF n >= BOX_MIN_STATS /\ \A i \in 1..3 : ~Truthy(used[i]) \/ used[i] \in DOMAIN Numerals
             THEN {IF Truthy(tok) THEN Numerals[tok] ELSE 0} ELSE {}
    ELSE LET at == BASKETBALL_STAT_INDICES[k] + 1
         IN  IF n >= at /\ stats[at] \in DOMAIN Numerals
             THEN {Numerals[stats[at]]} ELSE {}

\* the athletes, by position, whose compared value in category k is v
Holders(k, v) == {i \in DOMAIN CallAthletes : v \in ComparedValue(CallAthletes[i], k)}

C10_FootballBoxscoreIsNone ==
    Done("_extract_boxscore_football_leaders") => ret = Returns(None)

C10_Witness ==
    /\ Done("_extract_boxscore_football_leaders")
    /\ call.home_away = "home"
    /\ "boxscore" \in DOMAIN call.boxscore
    /\ call.boxscore.boxscore # None
    /\ \E i \in DOMAIN call.boxscore.boxscore.players :
           /\ call.boxscore.boxscore.players[i].team.homeAway = "home"
           /\ "statistics" \in DOMAIN call.boxscore.boxscore.players[i]
           /\ call.boxscore.boxscore.players[i].statistics # <<>>
           /\ call.boxscore.boxscore.players[i].statistics[1] # EmptyDict
           /\ \E j \in DOMAIN call.boxscore.boxscore.players[i].statistics[1].athletes :
                  LongEnough(call.boxscore.boxscore.players[i].statistics[1].athletes[j])


(***************************************************************************)
(* Name abbreviation for display (stats_renderer.py)                       *)
(***************************************************************************)

\* the default of max_length
DEFAULT_MAX_LENGTH == 8

\* ''.join([p[0] for p in parts[:n]])
Initials(parts, n) ==
    [i \in 1..(IF Len(parts) < n THEN Len(parts) ELSE n) |-> parts[i][1]]

\* name[:max_length] for max_length >= 0
Truncate(name, max_length) ==
    SubSeq(name, 1, IF Len(name) < max_length THEN Len(name) ELSE max_length)

DisplayNameAllInitials(name, max_length) ==
    IF Len(name) <= max_length THEN name
    ELSE IF Len(split(name)) >= 2 /\ Len(Initials(split(name), Len(split(name)))) <= max_length
    THEN Initials(split(name), Len(split(name)))
    ELSE Truncate(name, max_length)

_abbreviate_display_name(name, max_length) ==
    IF Len(name) <= max_length THEN name
    ELSE IF Len(split(name)) >= 2 /\ Len(Initials(split(name), 2)) <= max_length
    THEN Initials(split(name), 2)
    ELSE Truncate(name, max_length)

(***************************************************************************)
(* Inputs of the abbreviators                                              *)
(***************************************************************************)

MaxTokens == 3

\* tokens of 1, 8, 9 and 13 characters
NameTokens ==
    {<<"J">>,
     <<"M", "i", "t", "c", "h", "e", "l", "l">>,
     <<"R", "o", "b", "e", "r", "t", "s", "o", "n">>,
     <<"A", "n", "t", "e", "t", "o", "k", "o", "u", "n", "m", "p", "o">>}

Blanks == {<<" ">>, <<" ", " ">>}

\* the names of exactly n tokens, neither starting nor ending with a blank
RECURSIVE TokenNames(_)
TokenNames(n) ==
    IF n = 0 THEN {<<>>}
    ELSE IF n = 1 THEN NameTokens
    ELSE {rest \o b \o t : rest \in TokenNames(n - 1), b \in Blanks, t \in NameTokens}

Names ==
    {pre \o n \o post :
        pre \in {<<>>, <<" ">>}, post \in {<<>>, <<" ">>},
        n \in UNION {TokenNames(k) : k \in 0..MaxTokens}}

InitNames ==
    /\ \/ \E n \in Names : call = [fn |-> "_abbreviate_name", full_name |-> n]
       \/ \E n \in Names, m \in 0..DEFAULT_MAX_LENGTH :
              call = [fn |-> "_abbreviate_display_name", name |-> n, max_length |-> m]
    /\ api = NoApi
    /\ ret = NotReturned
    /\ pc = "call"

AbbreviateName ==
    /\ pc = "call"
    /\ call.fn = "_abbreviate_name"
    /\ ret' = Returns(_abbreviate_name(call.full_name))
    /\ pc' = "done"
    /\ UNCHANGED <<call, api>>

AbbreviateDisplayName ==
    /\ pc = "call"
    /\ call.fn = "_abbreviate_display_name"
    /\ ret' = Returns(_abbreviate_display_name(call.name, call.max_length))
    /\ pc' = "done"
    /\ UNCHANGED <<call, api>>

NextNames == AbbreviateName \/ AbbreviateDisplayName

SpecNames == InitNames /\ [][NextNames]_vars

(***************************************************************************)
(* Properties of the abbreviators                                          *)
(***************************************************************************)

\* the positions where a token of s starts, and where one ends
TokenStarts(s) == {i \in 1..Len(s) : s[i] # " " /\ (i = 1 \/ s[i - 1] = " ")}
TokenEnds(s) == {i \in 1..Len(s) : s[i] # " " /\ (i = Len(s) \/ s[i + 1] = " ")}

Least(S) == CHOOSE i \in S : \A j \in S : i <= j
Greatest(S) == CHOOSE i \in S : \A j \in S : j <= i

LastToken(s) == SubSeq(s, Greatest(TokenStarts(s)), Greatest(TokenEnds(s)))

\* C11: _abbreviate_name returns, for a name of two or more tokens, the last
\* token alone when it has at most 8 characters and "<first initial>. <last
\* token>" otherwise; for a name of one token or none it returns the name
\* cut to 10 characters.
C11_AbbreviateRule ==
    Done("_abbreviate_name") =>
        LET s == call.full_name
        IN  /\ ~ret.raises
            /\ ret.value =
                   IF Cardinality(TokenStarts(s)) >= 2
                   THEN IF Len(LastToken(s)) <= 8 THEN LastToken(s)
                        ELSE <<s[Least(TokenStarts(s))], ".", " ">> \o LastToken(s)
                   ELSE SubSeq(s, 1, IF Len(s) < 10 THEN Len(s) ELSE 10)

C11_Witness ==
    /\ Done("_abbreviate_name")
    /\ Cardinality(TokenStarts(call.full_name)) = 3
    /\ Len(LastToken(call.full_name)) = 9
    /\ call.full_name[1] = " "
    /\ ret.value = <<"J", ".", " ">> \o LastToken(call.full_name)

\* the initials of the first two tokens of s
FirstTwoInitials(s) ==
    <<s[Least(TokenStarts(s))], s[Least(TokenStarts(s) \ {Least(TokenStarts(s))})]>>

\* C12: _abbreviate_display_name returns a name of at most max_length
\* characters unchanged; otherwise the initials of the first two tokens when
\* there are two tokens and the initials fit; otherwise the name cut to
\* max_length characters. The result is longer than max_length only when it
\* is the unchanged input.
C12_DisplayRule ==
    Done("_abbreviate_display_name") =>
        LET s == call.name
            m == call.max_length
        IN  /\ ~ret.raises
            /\ ret.value =
                   IF Len(s) <= m THEN s
                   ELSE IF Cardinality(TokenStarts(s)) >= 2 /\ 2 <= m
                   THEN FirstTwoInitials(s)
                   ELSE SubSeq(s, 1, m)
            /\ (Len(ret.value) > m => ret.value = s)

C12_Witness ==
    /\ Done("_abbreviate_display_name")
    /\ Cardinality(TokenStarts(call.name)) = 3
    /\ call.max_length = DEFAULT_MAX_LENGTH
    /\ Len(call.name) > call.max_length
    /\ ret.value = <<"J", "A">>


(***************************************************************************)
(* Properties of the basketball rankers                                    *)
(***************************************************************************)

\* the call is to a basketball extractor and its payload has the athlete
\* list the extractor reads
CallHasAthletes ==
    \/ /\ call.fn = "_extract_boxscore_basketball_leaders"
       /\ "boxscore" \in DOMAIN call.boxscore
       /\ call.boxscore.boxscore # None
       /\ "players" \in DOMAIN call.boxscore.boxscore
       /\ FindTeam(call.boxscore.boxscore.players, 1, call.home_away) # None
       /\ "statistics" \in
              DOMAIN FindTeam(call.boxscore.boxscore.players, 1, call.home_away)
       /\ FindTeam(call.boxscore.boxscore.players, 1, call.home_away).statistics # <<>>
       /\ "athletes" \in
              DOMAIN FindTeam(call.boxscore.boxscore.players, 1, call.home_away).statistics[1]
    \/ /\ call.fn = "extract_basketball_leaders"
       /\ "statistics" \in DOMAIN call.competitor_data
       /\ FindSection(call.competitor_data.statistics, 1, "athletes") # None
       /\ "athletes" \in DOMAIN FindSection(call.competitor_data.statistics, 1, "athletes")

\* the position, from 1, of category k in a stat line of n values
FieldOf(k, n) ==
    IF call.fn = "extract_basketball_leaders" THEN BASKETBALL_STAT_INDICES[k] + 1
    ELSE IF k = "PTS" THEN n ELSE IF k = "REB" THEN 7 ELSE 8

\* the positive integers parsed at category k's own field over the eligible
\* athletes of the call
PositiveParses(k) ==
    {Numerals[CallAthletes[i].stats[FieldOf(k, Len(CallAthletes[i].stats))]] :
        i \in {j \in DOMAIN CallAthletes :
                  LET stats == CallAthletes[j].stats
                      at == FieldOf(k, Len(stats))
                  IN  /\ IF call.fn = "extract_basketball_leaders"
                         THEN Len(stats) >= at ELSE Len(stats) >= 13
                      /\ stats[at] \in DOMAIN Numerals
                      /\ Numerals[stats[at]] > 0}}

\* the categories of the returned leaders, none when None was returned
ReturnedCategories == IF ret.value = None THEN {} ELSE DOMAIN ret.value

\* C13: in both basketball extractors each category is decided from the
\* values at its own field: it is present exactly when some eligible athlete
\* has a positive integer there, with the greatest such integer as its value;
\* a malformed value removes nothing else.
C13_CategoriesIndependent ==
    (pc = "done" /\ CallHasAthletes
        /\ \A i \in DOMAIN CallAthletes : AthleteName(CallAthletes[i]) # <<>>) =>
        \A k \in {"PTS", "REB", "AST"} :
            /\ k \in ReturnedCategories <=> PositiveParses(k) # {}
            /\ k \in ReturnedCategories => ret.value[k].value = Greatest(PositiveParses(k))


(***************************************************************************)
(* Properties of the football fallback                                     *)
(***************************************************************************)

\* the section of the call's competitor named name, None when there is none
CallSection(name) == FindSection(Get(call.competitor_data, "statistics", <<>>), 1, name)

\* the section is present with a non-empty athlete list
HasFirstAthlete(name) ==
    /\ CallSection(name) # None
    /\ Get(CallSection(name), "athletes", <<>>) # <<>>

\* the first listed athlete is a mapping whose athlete info is a mapping or
\* missing
WellShapedFirst(name) ==
    /\ HasFirstAthlete(name)
    /\ CallSection(name).athletes[1] # None
    /\ Get(CallSection(name).athletes[1], "athlete", EmptyDict) # None

FirstStats(name) == Get(CallSection(name).athletes[1], "stats", <<>>)

\* section, key and the offsets (from 0) of yards and touchdowns, as stated
StatedPositions ==
    {[section |-> "passing",   key |-> "QB", yds |-> 2, tds |-> 3],
     [section |-> "receiving", key |-> "WR", yds |-> 1, tds |-> 3],
     [section |-> "rushing",   key |-> "RB", yds |-> 1, tds |-> 3]}

\* C14: in the football fallback each section present with a non-empty
\* athlete list gives an entry exactly when its first athlete has at least 4
\* stat values, and the entry's stats are "<yds> YDS, <tds> TD" read from that
\* first athlete at offsets 2/3 (passing) and 1/3 (receiving, rushing).
C14_FirstAthleteEntries ==
    Done("extract_football_leaders") =>
        \A p \in StatedPositions :
            WellShapedFirst(p.section) =>
                /\ p.key \in ReturnedCategories <=> Len(FirstStats(p.section)) >= 4
                /\ p.key \in ReturnedCategories =>
                       ret.value[p.key].stats =
                           Format(FirstStats(p.section)[p.yds + 1]) \o " YDS, "
                               \o Format(FirstStats(p.section)[p.tds + 1]) \o " TD"

\* the section gives no entry: it is missing, has no athlete, or its first
\* athlete is not of the expected shape
Offending(name) ==
    \/ ~HasFirstAthlete(name)
    \/ ~WellShapedFirst(name)
    \/ Len(FirstStats(name)) < 4

\* the competitor without its sections named name
WithoutSection(competitor_data, name) ==
    LET Keep(section) == Get(section, "name", JNull) # name
    IN  IF "statistics" \notin DOMAIN competitor_data THEN competitor_data
        ELSE [competitor_data EXCEPT !.statistics = SelectSeq(@, Keep)]

\* C15: in the football fallback a missing section, an empty athlete list or
\* a shape violation inside one section removes only that category: nothing
\* is raised and the result is the one obtained without the section.
C15_PerCategoryPresence ==
    Done("extract_football_leaders") =>
        /\ ~ret.raises
        /\ \A p \in StatedPositions :
               Offending(p.section) =>
                   ret.value = extract_football_leaders(
                                   WithoutSection(call.competitor_data, p.section))


(***************************************************************************)
(* Degradation within a fetch cycle, and precedence of the boxscore        *)
(***************************************************************************)

\* the event is in progress and parses to a record
WellFormedLive(event, league_key, get) ==
    /\ event # None
    /\ Get(event, "status", EmptyDict) # None
    /\ Get(Get(event, "status", EmptyDict), "type", EmptyDict) # None
    /\ StateOf(event) = "in"
    /\ _parse_game_event(event, league_key, get).game # None

\* C16: degradation is per event: every well-formed in-progress event of
\* the scoreboard that is among the first max_games of them has its record in
\* the returned list, whatever the shape of the other events.
C16_PerEventDegradation ==
    (Done("fetch_live_games") /\ call.league_key \in DOMAIN LEAGUE_MAP
        /\ ~ScoreboardFailed /\ call.max_games >= 0) =>
        LET events == api.scoreboard.value.events
            good == {i \in DOMAIN events :
                        WellFormedLive(events[i], call.league_key, api.get)}
        IN  \A i \in good :
                Cardinality({j \in good : j < i}) < call.max_games =>
                    \E n \in DOMAIN ret.value :
                        ret.value[n] =
                            _parse_game_event(events[i], call.league_key, api.get).game

\* the boxscore of the event was requested and a non-empty response came
BoxscoreFetchSucceeded ==
    /\ api.requests # <<>>
    /\ ~api.get[api.requests[1]].raises
    /\ TruthyDict(api.get[api.requests[1]].value)

\* the event with the scoreboard statistics of its competitors removed
StripStatistics(event) ==
    [event EXCEPT !.competitions[1].competitors =
        [i \in DOMAIN @ |-> Without(@[i], "statistics")]]

\* the boxscore extractor's result for the league's sport family
FamilyBoxscore(league_key, boxscore, home_away) ==
    IF LEAGUE_MAP[league_key][1] = "basketball"
    THEN _extract_boxscore_basketball_leaders(boxscore, home_away)
    ELSE _extract_boxscore_football_leaders(boxscore, home_away)

\* C17: when the boxscore fetch returned a non-empty response the record's
\* leaders are the boxscore extractor's results, None included, the record
\* is the same as without any scoreboard statistics, and for nfl and ncaaf
\* both leaders are None.
C17_BoxscoreTakesPrecedence ==
    (Done("_parse_game_event") /\ BoxscoreFetchSucceeded) =>
        /\ ret.value # None
        /\ ret.value.home_leaders =
               FamilyBoxscore(call.league_key, api.get[api.requests[1]].value, "home")
        /\ ret.value.away_leaders =
               FamilyBoxscore(call.league_key, api.get[api.requests[1]].value, "away")
        /\ ret.value =
               _parse_game_event(StripStatistics(call.event), call.league_key, api.get).game
        /\ call.league_key \in {"nfl", "ncaaf"} =>
               ret.value.home_leaders = None /\ ret.value.away_leaders = None

C17_Witness ==
    /\ Done("_parse_game_event")
    /\ BoxscoreFetchSucceeded
    /\ call.league_key = "nfl"
    /\ extract_football_leaders(TeamOf(call.event, "home")) # None
    /\ ret.value.home_leaders = None

=============================================================================
